---- MODULE Spec2Model ----
(***************************************************************************)
(* HealthCompanion.py: one Streamlit session of the AI Health Companion.   *)
(*                                                                         *)
(* The script is executed top to bottom once per user event.  A run is     *)
(* modelled as a pipeline of pure phases over a run record                 *)
(*   [ss, w, out, bmi, pc, prompt, calls, response, rendered]              *)
(* (Config, SessionState, Sidebar, Tab1, Tab2, Tab3); a phase is skipped   *)
(* when an earlier one stopped the script, raised, or is blocked in        *)
(* model.generate_content.  A blocked run is resumed by the action that    *)
(* delivers the model's text or its exception.                             *)
(*                                                                         *)
(* Numbers: BMI values are held in tenths (24.2 is 242).                   *)
(***************************************************************************)
EXTENDS Integers, Sequences, FiniteSets, TLC

VARIABLES
    GOOGLE_API_KEY,   \* TRUE iff os.getenv("GOOGLE_API_KEY") is non-empty
    session_state,    \* st.session_state: key -> value
    widgets,          \* committed values of the five sidebar inputs
    uploaded,         \* the file uploader's value: "none" or a file
    pc,               \* "new", "idle", "stopped", "raised", or a *_call
    prompt,           \* argument of the generate_content call in flight
    calls,            \* generate_content calls issued by the current run
    response,         \* <<>>, <<"ok", text>> or <<"exc", e>> of this run
    messages,         \* status elements rendered by the current run
    bmi,              \* <<>> or <<value shown by st.metric, in tenths>>
    rendered,         \* input controls the current run has put on the page
    refused           \* sidebar field whose last typed entry was refused

vars == <<GOOGLE_API_KEY, session_state, widgets, uploaded, pc, prompt,
          calls, response, messages, bmi, rendered, refused>>

----------------------------------------------------------------------------
(* Bounds of the model *)

MaxChats == 2

AgeEntries == {25, 40, 5, 150}
WeightEntries == {70, 80, 300}
HeightEntries == {170, 160, 99}
GoalEntries == {"Fat loss", "Muscle gain"}
ActivityEntries == {"Moderate", "High"}
Files == {"valid", "corrupt"}
Questions == {"q1"}
Texts == {"r1"}
Errors == {"e1"}

----------------------------------------------------------------------------
(* Program constants *)

MinAge == 10
MaxAge == 100
MinWeight == 30
MaxWeight == 250
MinHeight == 100
MaxHeight == 250
GoalOptions == <<"Fat loss", "Muscle gain", "Maintenance">>
ActivityOptions == <<"Low", "Moderate", "High">>
GoalIndex == 0
ActivityIndex == 1

DefaultProfile ==
    [age |-> 25, weight |-> 70, height |-> 170,
     goal |-> "Fat loss", activity |-> "Moderate"]

Empty == [k \in {} |-> 0]

Range(s) == {s[i] : i \in DOMAIN s}

CallStates == {"plan_call", "analyze_call", "chat_call"}

----------------------------------------------------------------------------
(* Config: lines 14-27 *)

ConfigOK_Unchecked(key) == TRUE

ConfigOK(key) == key

KeyError ==
    <<"error", "config", <<"API Key not found! Please check your .env file.">> >>

Begin(w) ==
    [ss |-> session_state, w |-> w, out |-> <<>>, bmi |-> <<>>, pc |-> "run",
     prompt |-> <<>>, calls |-> 0, response |-> <<>>, rendered |-> {}]

Config(rs, key) ==
    IF ConfigOK(key) THEN rs
    ELSE [rs EXCEPT !.out = Append(@, KeyError), !.pc = "stopped"]

----------------------------------------------------------------------------
(* Session state: lines 59-69 *)

InitChatHistory_Reset(ss) ==
    [k \in DOMAIN ss \cup {"chat_history"} |->
        IF k = "chat_history" THEN <<>> ELSE ss[k]]

InitChatHistory(ss) ==
    IF "chat_history" \in DOMAIN ss THEN ss
    ELSE ss @@ ("chat_history" :> <<>>)

InitProfile(ss) ==
    IF "profile" \in DOMAIN ss THEN ss
    ELSE ss @@ ("profile" :> DefaultProfile)

SessionState(rs) ==
    IF rs.pc # "run" THEN rs
    ELSE [rs EXCEPT !.ss = InitProfile(InitChatHistory(@))]

----------------------------------------------------------------------------
(* Sidebar: lines 73-95 *)

\* What the front end commits when the user types v into a number input
\* declared with min lo and max hi: an out-of-range entry is not committed.
CommitNumber_Unbounded(lo, hi, cur, v) == v

CommitNumber(lo, hi, cur, v) ==
    IF lo <= v /\ v <= hi THEN v ELSE cur

\* st.number_input(label, lo, hi, value): the committed value, or the
\* default `value` when the widget has none yet.
number_input(w, name, lo, hi, value) ==
    IF name \in DOMAIN w THEN w[name] ELSE value

\* st.selectbox(label, options, index=index)
selectbox(w, name, options, index) ==
    IF name \in DOMAIN w THEN w[name] ELSE options[index + 1]

SidebarInputs(w, profile) ==
    [age      |-> number_input(w, "age", MinAge, MaxAge, profile.age),
     weight   |-> number_input(w, "weight", MinWeight, MaxWeight, profile.weight),
     height   |-> number_input(w, "height", MinHeight, MaxHeight, profile.height),
     goal     |-> selectbox(w, "goal", GoalOptions, GoalIndex),
     activity |-> selectbox(w, "activity", ActivityOptions, ActivityIndex)]

\* st.session_state.profile.update({...})
ProfileUpdate(profile, sb) ==
    [profile EXCEPT !.age = sb.age, !.weight = sb.weight,
                    !.height = sb.height, !.goal = sb.goal,
                    !.activity = sb.activity]

Updated == <<"success", "sidebar", <<"Profile Updated!">> >>

\* round(weight / ((height/100)**2), 1), in tenths.  The quotient is
\* rounded to the nearest tenth; at an exact tie Python rounds the binary64
\* quotient, which is the tie itself (rounded half to even) unless the
\* square is inexact: (160/100)**2 is 2.5600000000000005, which puts the
\* quotient just below the tie.
BMI_Truncated(weight, height) == (weight * 100000) \div (height * height)

BMI(weight, height) ==
    LET n == weight * 100000
        d == height * height
        q == n \div d
        r2 == 2 * (n % d)
    IN  IF r2 > d THEN q + 1
        ELSE IF r2 < d THEN q
        ELSE IF height = 160 THEN q
        ELSE IF q % 2 = 0 THEN q ELSE q + 1

Sidebar_AutoSave(rs, button) ==
    IF rs.pc # "run" THEN rs
    ELSE LET sb == SidebarInputs(rs.w, rs.ss["profile"])
         IN  [rs EXCEPT !.w = sb,
                        !.rendered = @ \cup {"sidebar"},
                        !.ss["profile"] = ProfileUpdate(@, sb),
                        !.out = IF button = "update" THEN Append(@, Updated) ELSE @,
                        !.bmi = <<BMI(sb.weight, sb.height)>>]

Sidebar(rs, button) ==
    IF rs.pc # "run" THEN rs
    ELSE LET sb == SidebarInputs(rs.w, rs.ss["profile"])
             r1 == [rs EXCEPT !.w = sb, !.rendered = @ \cup {"sidebar"}]
             r2 == IF button = "update"
                   THEN [r1 EXCEPT !.ss["profile"] = ProfileUpdate(@, sb),
                                   !.out = Append(@, Updated)]
                   ELSE r1
         IN  [r2 EXCEPT !.bmi = <<BMI(sb.weight, sb.height)>>]

----------------------------------------------------------------------------
(* Prompts.  An f-string is the sequence of its pieces; the repr of the    *)
(* profile dict is the sequence of its items in insertion order.           *)

DictRepr(p) ==
    << <<"age", p.age>>, <<"weight", p.weight>>, <<"height", p.height>>,
       <<"goal", p.goal>>, <<"activity", p.activity>> >>

MealPlanPrompt(profile) ==
    <<"Create a high-quality 7-day meal plan. User Profile: ",
      DictRepr(profile),
      " Please provide: - Daily calorie targets - Macronutrient breakdown (P/C/F) - Specific meals for Breakfast, Lunch, Dinner, and Snacks - A consolidated grocery list - Quick prep tips for the week">>

FoodPrompt(image) ==
    <<"Analyze this food image. Provide estimated calories, macros, a health rating (1-10), and portion advice.",
      image>>

profile_context(profile) == <<"User Profile: ", DictRepr(profile), ". ">>

full_prompt(profile, user_input) ==
    profile_context(profile) \o <<"\nUser Question: ", user_input>>

----------------------------------------------------------------------------
(* Meal planner: lines 103-123 *)

Tab1(rs, button) ==
    IF rs.pc # "run" THEN rs
    ELSE LET r1 == [rs EXCEPT !.rendered = @ \cup {"plan"}]
         IN  IF button = "plan"
             THEN [r1 EXCEPT !.prompt = MealPlanPrompt(rs.ss["profile"]),
                             !.calls = @ + 1,
                             !.pc = "plan_call"]
             ELSE r1

PlanTry(rs, text) ==
    [rs EXCEPT !.response = <<"ok", text>>,
               !.out = Append(@, <<"markdown", "planner", <<text>> >>)]

PlanExcept_Logged(rs, e) ==
    [rs EXCEPT !.response = <<"exc", e>>,
               !.ss["chat_history"] = Append(@, <<"Coach", e>>),
               !.out = Append(@, <<"error", "planner", <<"Error generating plan: ", e>> >>)]

PlanExcept(rs, e) ==
    [rs EXCEPT !.response = <<"exc", e>>,
               !.out = Append(@, <<"error", "planner", <<"Error generating plan: ", e>> >>)]

----------------------------------------------------------------------------
(* Food scanner: lines 127-146 *)

\* Image.open(uploaded) raises on a file that is no image.
Decodable(file) == file = "valid"

ImageOpen(file) == <<"image", file>>

Tab2(rs, file, button) ==
    IF rs.pc # "run" THEN rs
    ELSE LET r1 == [rs EXCEPT !.rendered = @ \cup {"uploader"}]
         IN  IF file = "none" THEN r1
             ELSE IF ~Decodable(file)
             THEN [r1 EXCEPT !.pc = "raised",
                             !.out = Append(@, <<"exception", "scanner",
                                                 <<"UnidentifiedImageError">> >>)]
             ELSE LET r2 == [r1 EXCEPT !.rendered = @ \cup {"analyze"}]
                  IN  IF button = "analyze"
                      THEN [r2 EXCEPT !.prompt = FoodPrompt(ImageOpen(file)),
                                      !.calls = @ + 1,
                                      !.pc = "analyze_call"]
                      ELSE r2

AnalyzeTry(rs, text) ==
    [rs EXCEPT !.response = <<"ok", text>>,
               !.out = Append(@, <<"markdown", "scanner", <<text>> >>)]

AnalyzeExcept(rs, e) ==
    [rs EXCEPT !.response = <<"exc", e>>,
               !.out = Append(@, <<"error", "scanner", <<"Error analyzing image: ", e>> >>)]

----------------------------------------------------------------------------
(* AI coach chat: lines 150-177 *)

Tab3_FromInputs(rs, user_input) ==
    IF rs.pc # "run" THEN rs
    ELSE LET r1 == [rs EXCEPT !.rendered = @ \cup {"chat"}]
         IN  IF user_input = "" THEN r1
             ELSE [r1 EXCEPT !.ss["chat_history"] = Append(@, <<"You", user_input>>),
                             !.prompt = full_prompt(rs.w, user_input),
                             !.calls = @ + 1,
                             !.pc = "chat_call"]

Tab3(rs, user_input) ==
    IF rs.pc # "run" THEN rs
    ELSE LET r1 == [rs EXCEPT !.rendered = @ \cup {"chat"}]
         IN  IF user_input = "" THEN r1
             ELSE [r1 EXCEPT !.ss["chat_history"] = Append(@, <<"You", user_input>>),
                             !.prompt = full_prompt(rs.ss["profile"], user_input),
                             !.calls = @ + 1,
                             !.pc = "chat_call"]

ChatTry(rs, text) ==
    [rs EXCEPT !.response = <<"ok", text>>,
               !.out = Append(@, <<"markdown", "coach", <<text>> >>),
               !.ss["chat_history"] = Append(@, <<"Coach", text>>)]

ChatExcept_Silent(rs, e) ==
    [rs EXCEPT !.response = <<"exc", e>>]

ChatExcept(rs, e) ==
    [rs EXCEPT !.response = <<"exc", e>>,
               !.out = Append(@, <<"error", "coach", <<"Error: ", e>> >>)]

----------------------------------------------------------------------------
(* One execution of the script, and its resumption after the model call *)

Script(w, file, button, user_input) ==
    Tab3(Tab2(Tab1(Sidebar(SessionState(Config(Begin(w), GOOGLE_API_KEY)),
                           button),
                   button),
              file, button),
         user_input)

Resume ==
    [ss |-> session_state, w |-> widgets, out |-> messages, bmi |-> bmi,
     pc |-> "run", prompt |-> <<>>, calls |-> calls, response |-> <<>>,
     rendered |-> rendered]

Commit(rs) ==
    /\ session_state' = rs.ss
    /\ widgets' = rs.w
    /\ messages' = rs.out
    /\ bmi' = rs.bmi
    /\ prompt' = rs.prompt
    /\ calls' = rs.calls
    /\ response' = rs.response
    /\ rendered' = rs.rendered
    /\ pc' = IF rs.pc = "run" THEN "idle" ELSE rs.pc
    /\ UNCHANGED GOOGLE_API_KEY

Waiting == pc \in {"idle", "stopped", "raised"}

NumUserTurns(history) == Cardinality({i \in DOMAIN history : history[i][1] = "You"})

----------------------------------------------------------------------------
(* Events *)

Init ==
    /\ GOOGLE_API_KEY \in BOOLEAN
    /\ session_state = Empty
    /\ widgets = Empty
    /\ uploaded = "none"
    /\ pc = "new"
    /\ prompt = <<>>
    /\ calls = 0
    /\ response = <<>>
    /\ messages = <<>>
    /\ bmi = <<>>
    /\ rendered = {}
    /\ refused = ""

Load ==
    /\ pc = "new"
    /\ Commit(Script(widgets, uploaded, "none", ""))
    /\ UNCHANGED <<uploaded, refused>>

Rerun ==
    /\ Waiting
    /\ Commit(Script(widgets, uploaded, "none", ""))
    /\ refused' = ""
    /\ UNCHANGED uploaded

EditNumber(name, lo, hi, v) ==
    /\ Waiting
    /\ "sidebar" \in rendered
    /\ LET c == CommitNumber(lo, hi, widgets[name], v)
       IN  /\ Commit(Script([widgets EXCEPT ![name] = c], uploaded, "none", ""))
           /\ refused' = IF c = v THEN "" ELSE name
    /\ UNCHANGED uploaded

EditAge == \E v \in AgeEntries : EditNumber("age", MinAge, MaxAge, v)

EditWeight == \E v \in WeightEntries : EditNumber("weight", MinWeight, MaxWeight, v)

EditHeight == \E v \in HeightEntries : EditNumber("height", MinHeight, MaxHeight, v)

Select(name, options, v) ==
    /\ Waiting
    /\ "sidebar" \in rendered
    /\ v \in Range(options)
    /\ Commit(Script([widgets EXCEPT ![name] = v], uploaded, "none", ""))
    /\ refused' = ""
    /\ UNCHANGED uploaded

SelectGoal == \E v \in GoalEntries : Select("goal", GoalOptions, v)

SelectActivity == \E v \in ActivityEntries : Select("activity", ActivityOptions, v)

UpdateProfile ==
    /\ Waiting
    /\ "sidebar" \in rendered
    /\ Commit(Script(widgets, uploaded, "update", ""))
    /\ UNCHANGED <<uploaded, refused>>

CreatePlan ==
    /\ Waiting
    /\ "plan" \in rendered
    /\ Commit(Script(widgets, uploaded, "plan", ""))
    /\ refused' = ""
    /\ UNCHANGED uploaded

Upload ==
    /\ Waiting
    /\ "uploader" \in rendered
    /\ \E file \in Files \cup {"none"} :
          /\ uploaded' = file
          /\ Commit(Script(widgets, file, "none", ""))
    /\ refused' = ""

Analyze ==
    /\ Waiting
    /\ "analyze" \in rendered
    /\ Commit(Script(widgets, uploaded, "analyze", ""))
    /\ refused' = ""
    /\ UNCHANGED uploaded

ChatSubmit ==
    /\ Waiting
    /\ "chat" \in rendered
    /\ NumUserTurns(session_state["chat_history"]) < MaxChats
    /\ \E user_input \in Questions :
          Commit(Script(widgets, uploaded, "none", user_input))
    /\ refused' = ""
    /\ UNCHANGED uploaded

PlanReturns ==
    /\ pc = "plan_call"
    /\ \E text \in Texts :
          Commit(Tab3(Tab2(PlanTry(Resume, text), uploaded, "none"), ""))
    /\ UNCHANGED <<uploaded, refused>>

PlanRaises ==
    /\ pc = "plan_call"
    /\ \E e \in Errors :
          Commit(Tab3(Tab2(PlanExcept(Resume, e), uploaded, "none"), ""))
    /\ UNCHANGED <<uploaded, refused>>

AnalyzeReturns ==
    /\ pc = "analyze_call"
    /\ \E text \in Texts : Commit(Tab3(AnalyzeTry(Resume, text), ""))
    /\ UNCHANGED <<uploaded, refused>>

AnalyzeRaises ==
    /\ pc = "analyze_call"
    /\ \E e \in Errors : Commit(Tab3(AnalyzeExcept(Resume, e), ""))
    /\ UNCHANGED <<uploaded, refused>>

ChatReturns ==
    /\ pc = "chat_call"
    /\ \E text \in Texts : Commit(ChatTry(Resume, text))
    /\ UNCHANGED <<uploaded, refused>>

ChatRaises ==
    /\ pc = "chat_call"
    /\ \E e \in Errors : Commit(ChatExcept(Resume, e))
    /\ UNCHANGED <<uploaded, refused>>

Next ==
    \/ Load
    \/ Rerun
    \/ EditAge
    \/ EditWeight
    \/ EditHeight
    \/ SelectGoal
    \/ SelectActivity
    \/ UpdateProfile
    \/ CreatePlan
    \/ Upload
    \/ Analyze
    \/ ChatSubmit
    \/ PlanReturns
    \/ PlanRaises
    \/ AnalyzeReturns
    \/ AnalyzeRaises
    \/ ChatReturns
    \/ ChatRaises

Spec == Init /\ [][Next]_vars

----------------------------------------------------------------------------
(* The two session stores, and what the properties below read *)

chat_history == session_state["chat_history"]

profile == session_state["profile"]

Initialised == DOMAIN session_state = {"chat_history", "profile"}

Last(s) == s[Len(s)]

Front(s) == SubSeq(s, 1, Len(s) - 1)

Abs(x) == IF x < 0 THEN -x ELSE x

\* b tenths is a nearest tenth to weight / (height/100)^2
IsNearestTenth(b, weight, height) ==
    2 * Abs(b * height * height - weight * 100000) <= height * height

InBounds(p) ==
    /\ p.age \in 10..100
    /\ p.weight \in 30..250
    /\ p.height \in 100..250
    /\ p.goal \in {"Fat loss", "Muscle gain", "Maintenance"}
    /\ p.activity \in {"Low", "Moderate", "High"}

UpdateStep == Updated \in Range(messages')

RefusalStep == refused' # "" /\ ~UpdateStep

Failed == response # <<>> /\ response[1] = "exc"

ErrorsShown == Cardinality({i \in DOMAIN messages : messages[i][1] = "error"})

----------------------------------------------------------------------------
\* C1: whenever no model call is pending, every user turn of the
\* conversation log is immediately followed by a coach turn.
C1_UserTurnAnswered ==
    (Initialised /\ pc \notin CallStates) =>
        \A i \in DOMAIN chat_history :
            chat_history[i][1] = "You" =>
                /\ i < Len(chat_history)
                /\ chat_history[i + 1][1] = "Coach"

\* C2: a chat submission whose model call fails leaves the session state as
\* it was before the submission, or leaves the added user turn marked or
\* followed by a marker turn; the profile is unchanged either way.
C2_FailedChatResolved ==
    [][(pc = "chat_call" /\ response' # <<>> /\ response'[1] = "exc") =>
          /\ profile' = profile
          /\ \/ chat_history' = Front(chat_history)
             \/ Last(chat_history')[1] # "You"
             \/ Len(Last(chat_history')) > 2]_vars

\* C3: Create 7-Day Plan and Analyze never write the conversation log or
\* the profile, whether the model call succeeds or fails, and a failed call
\* ends with that panel's error message on the page.
C3_PlanAnalyzeFrame ==
    [][(pc \in {"plan_call", "analyze_call"} \/ pc' \in {"plan_call", "analyze_call"}) =>
          /\ session_state' = session_state
          /\ pc \in {"plan_call", "analyze_call"} =>
                /\ response' # <<>>
                /\ pc' \notin CallStates
                /\ (pc = "plan_call" /\ response'[1] = "exc") =>
                      <<"error", "planner", <<"Error generating plan: ", response'[2]>> >>
                          \in Range(messages')
                /\ (pc = "analyze_call" /\ response'[1] = "exc") =>
                      <<"error", "scanner", <<"Error analyzing image: ", response'[2]>> >>
                          \in Range(messages')]_vars

C3_Witness ==
    /\ Failed
    /\ <<"error", "planner", <<"Error generating plan: ", "e1">> >> \in Range(messages)
    /\ Len(chat_history) > 0
    /\ profile # DefaultProfile

\* C4 (as stated): an Update Profile pressed while a field holds a typed
\* out-of-range entry leaves the stored profile unchanged.
C4_RefusedCandidateRejectsUpdate ==
    [][(refused # "" /\ UpdateStep) => session_state' = session_state]_vars

\* C4 (amended): an out-of-range entry is refused by its input and changes
\* neither the inputs nor the stores; Update Profile stores the values the
\* inputs hold; the stored profile and the inputs are always within bounds.
C4_OutOfRangeNeverStored ==
    [][/\ RefusalStep => (widgets' = widgets /\ session_state' = session_state)
       /\ (UpdateStep /\ Initialised) => profile' = widgets
       /\ "profile" \in DOMAIN session_state' => InBounds(profile')
       /\ DOMAIN widgets' # {} => InBounds(widgets')]_vars

C4_Witness ==
    /\ refused = "age"
    /\ Updated \in Range(messages)
    /\ profile # DefaultProfile

\* C5: with the credential absent every run reports it and stops: no
\* session state, no widget, no control, no model call, ever.
C5_MissingKeyStops ==
    ~GOOGLE_API_KEY =>
        /\ session_state = Empty
        /\ widgets = Empty
        /\ rendered = {}
        /\ bmi = <<>>
        /\ calls = 0
        /\ prompt = <<>>
        /\ response = <<>>
        /\ pc \in {"new", "stopped"}
        /\ pc = "stopped" =>
              messages = << <<"error", "config",
                              <<"API Key not found! Please check your .env file.">> >> >>

C5_Witness == ~GOOGLE_API_KEY /\ pc = "stopped"

\* C6: the profile is created by the first run with the defaults, and
\* afterwards changes only in a run where Update Profile was pressed, which
\* stores the five values the inputs hold.
C6_ProfileOnlyByUpdate ==
    [][/\ ("profile" \notin DOMAIN session_state /\ "profile" \in DOMAIN session_state') =>
             /\ pc = "new"
             /\ profile' = [age |-> 25, weight |-> 70, height |-> 170,
                            goal |-> "Fat loss", activity |-> "Moderate"]
       /\ "profile" \in DOMAIN session_state =>
             /\ "profile" \in DOMAIN session_state'
             /\ IF UpdateStep THEN profile' = widgets ELSE profile' = profile]_vars

C6_Witness ==
    /\ Initialised
    /\ profile # DefaultProfile
    /\ widgets # profile
    /\ response # <<>>

\* C7 (as stated): the displayed BMI is the stored profile's weight over
\* the square of its height in metres, rounded to one decimal.
C7_BMIFromStore ==
    bmi # <<>> => IsNearestTenth(bmi[1], profile.weight, profile.height)

\* C7 (amended): every run that renders the sidebar displays the BMI of the
\* weight and height the inputs hold, to the nearest tenth (70 and 170 give
\* 24.2); it is the stored profile's BMI when the inputs equal the store.
C7_BMIFromInputs ==
    /\ "sidebar" \in rendered => bmi # <<>>
    /\ bmi # <<>> =>
          /\ IsNearestTenth(bmi[1], widgets.weight, widgets.height)
          /\ (widgets.weight = 70 /\ widgets.height = 170) => bmi[1] = 242
          /\ (widgets.weight = profile.weight /\ widgets.height = profile.height) =>
                IsNearestTenth(bmi[1], profile.weight, profile.height)

C7_Witness ==
    /\ bmi = <<277>>
    /\ widgets.weight = 80
    /\ profile.weight = 70

\* C8: the log is created empty; every step leaves the old log a prefix of
\* the new one; only a chat submission extends it, by the user turn, and
\* its successful call by the coach turn with the model's text.
C8_AppendOnly ==
    [][/\ ("chat_history" \notin DOMAIN session_state
              /\ "chat_history" \in DOMAIN session_state') => chat_history' = <<>>
       /\ "chat_history" \in DOMAIN session_state =>
             /\ "chat_history" \in DOMAIN session_state'
             /\ Len(chat_history) <= Len(chat_history')
             /\ SubSeq(chat_history', 1, Len(chat_history)) = chat_history
             /\ IF pc \notin CallStates /\ pc' = "chat_call"
                THEN /\ Len(chat_history') = Len(chat_history) + 1
                     /\ Last(chat_history')[1] = "You"
                     /\ Last(chat_history')[2] \in Questions
                ELSE IF pc = "chat_call" /\ response' # <<>> /\ response'[1] = "ok"
                THEN chat_history' = Append(chat_history, <<"Coach", response'[2]>>)
                ELSE chat_history' = chat_history]_vars

C8_Witness ==
    /\ Initialised
    /\ Len(chat_history) >= 3
    /\ chat_history[1][1] = "You"
    /\ chat_history[2][1] = "Coach"
    /\ pc = "idle"

C10_ChatPromptOfProfileAndQuestion ==
    pc = "chat_call" =>
        prompt = <<"User Profile: ",
                   << <<"age", profile.age>>, <<"weight", profile.weight>>,
                      <<"height", profile.height>>, <<"goal", profile.goal>>,
                      <<"activity", profile.activity>> >>,
                   ". ",
                   "\nUser Question: ",
                   Last(chat_history)[2]>>

C10_Witness ==
    /\ pc = "chat_call"
    /\ Len(chat_history) > 1
    /\ widgets # profile
    /\ profile # DefaultProfile

====
